---- MODULE Spec2Model ----
(***************************************************************************)
(* The coastal-erosion notebook (Coastal_erosion_monitoring.ipynb) as a    *)
(* state machine: the kernel's variables are the state, every code cell is *)
(* one action, and the cells run top to bottom.                            *)
(*                                                                         *)
(* Numbers that the notebook holds as floats are modelled as exact         *)
(* rationals with the IEEE special values: <<n, d>> with d > 0 and         *)
(* gcd(n, d) = 1 is the number n/d, <<0, 0>> is NaN, <<1, 0>> and          *)
(* <<-1, 0>> are +inf and -inf.  Rounding is not modelled.                 *)
(***************************************************************************)
EXTENDS Integers, Sequences, FiniteSets, TLC

\* ------------------------------------------------------------------ bounds
\* Largest band value (scaled reflectance) of the water-index specification.
MaxBand == 3
\* Pixels per image in the water-index specification.
NPix == 2
\* Most timesteps the data cube returns for a query.
MaxImages == 3
\* Number of calendar years the data cube holds images for.
NYears == 2
\* Highest recorded tide height, in metres, of the tide gauge files.
MaxTide == 3

\* ------------------------------------------------------- float arithmetic
RECURSIVE Gcd(_, _)
Gcd(a, b) == IF b = 0 THEN a ELSE Gcd(b, a % b)

Abs(x) == IF x < 0 THEN -x ELSE x
Sign(x) == IF x < 0 THEN -1 ELSE IF x > 0 THEN 1 ELSE 0

NaN == <<0, 0>>
IsNaN(a) == a[1] = 0 /\ a[2] = 0
IsInf(a) == a[1] # 0 /\ a[2] = 0
IsFinite(a) == a[2] # 0

\* The float n/d as the model holds it (reduced, positive denominator).
Norm(n, d) ==
    IF d = 0 THEN <<Sign(n), 0>>
    ELSE LET g == Gcd(Abs(n), Abs(d))
             s == Sign(d)
         IN  <<(s * n) \div g, (s * d) \div g>>

F(k) == <<k, 1>>

FNeg(a) == <<-a[1], a[2]>>

FAdd(a, b) ==
    IF IsNaN(a) \/ IsNaN(b) THEN NaN
    ELSE IF IsInf(a) /\ IsInf(b) THEN (IF a[1] = b[1] THEN a ELSE NaN)
    ELSE IF IsInf(a) THEN a
    ELSE IF IsInf(b) THEN b
    ELSE Norm(a[1] * b[2] + b[1] * a[2], a[2] * b[2])

FSub(a, b) == FAdd(a, FNeg(b))

FMul(a, b) ==
    IF IsNaN(a) \/ IsNaN(b) THEN NaN
    ELSE IF (IsInf(a) /\ b[1] = 0) \/ (IsInf(b) /\ a[1] = 0) THEN NaN
    ELSE Norm(a[1] * b[1], a[2] * b[2])

\* IEEE division: x/0 is +-inf for x # 0 and NaN for x = 0, no exception.
FDiv(a, b) ==
    IF IsNaN(a) \/ IsNaN(b) THEN NaN
    ELSE IF IsInf(a) /\ IsInf(b) THEN NaN
    ELSE IF IsInf(b) THEN F(0)
    ELSE IF b[1] = 0 THEN <<Sign(a[1]), 0>>
    ELSE IF IsInf(a) THEN <<a[1] * Sign(b[1]), 0>>
    ELSE Norm(a[1] * b[2], a[2] * b[1])

\* Float comparison: every comparison with NaN is False.
FLt(a, b) ==
    /\ ~IsNaN(a) /\ ~IsNaN(b)
    /\ IF IsInf(a) \/ IsInf(b)
       THEN (IF IsInf(a) THEN a[1] ELSE 0) < (IF IsInf(b) THEN b[1] ELSE 0)
            \/ (IsInf(a) /\ IsInf(b) /\ a[1] < b[1])
       ELSE a[1] * b[2] < b[1] * a[2]
FGt(a, b) == FLt(b, a)
FLe(a, b) == ~IsNaN(a) /\ ~IsNaN(b) /\ ~FLt(b, a)

\* ---------------------------------------------------------------- calendar
\* A timestamp is <<year, month, day>>; the time of day plays no part in any
\* step of the notebook that the model covers.
IsLeap(y) == (y % 4 = 0 /\ y % 100 # 0) \/ y % 400 = 0

DaysInMonth(y, m) ==
    IF m = 2 THEN (IF IsLeap(y) THEN 29 ELSE 28)
    ELSE IF m \in {4, 6, 9, 11} THEN 30 ELSE 31

DateLt(a, b) ==
    \/ a[1] < b[1]
    \/ a[1] = b[1] /\ a[2] < b[2]
    \/ a[1] = b[1] /\ a[2] = b[2] /\ a[3] < b[3]
DateLe(a, b) == a = b \/ DateLt(a, b)

\* First year of time_range.
FirstYear == 2013

RECURSIVE DaysBeforeYear(_)
DaysBeforeYear(y) ==
    IF y <= FirstYear THEN 0
    ELSE DaysBeforeYear(y - 1) + (IF IsLeap(y - 1) THEN 366 ELSE 365)

RECURSIVE DaysBeforeMonth(_, _)
DaysBeforeMonth(y, m) ==
    IF m <= 1 THEN 0 ELSE DaysBeforeMonth(y, m - 1) + DaysInMonth(y, m - 1)

\* The timestamp as a number (days since the start of FirstYear): what the
\* interpolation computes with.
Ordinal(t) == DaysBeforeYear(t[1]) + DaysBeforeMonth(t[1], t[2]) + (t[3] - 1)

\* The end of the month that is k months after the month of t.
MonthEndAfter(t, k) ==
    LET mm == t[1] * 12 + (t[2] - 1) + k
        y  == mm \div 12
        m  == (mm % 12) + 1
    IN  <<y, m, DaysInMonth(y, m)>>

\* ----------------------------------------------------------------- strings
\* A string is a sequence of one-character strings.
DigitChars == <<"0", "1", "2", "3", "4", "5", "6", "7", "8", "9">>
Digit(k) == DigitChars[k + 1]

Pad2(k) == <<Digit((k \div 10) % 10), Digit(k % 10)>>
Pad4(k) == <<Digit((k \div 1000) % 10), Digit((k \div 100) % 10)>> \o Pad2(k)

\* str(numpy.datetime64) of a nanosecond timestamp at midnight.
StrTime(t) ==
    Pad4(t[1]) \o <<"-">> \o Pad2(t[2]) \o <<"-">> \o Pad2(t[3])
      \o <<"T", "0", "0", ":", "0", "0", ":", "0", "0", ".">>
      \o [i \in 1..9 |-> "0"]

\* Python's s[a:b] for 0 <= a <= b.
Slice(s, a, b) == SubSeq(s, a + 1, IF b < Len(s) THEN b ELSE Len(s))

\* ------------------------------------------------------------ the data cube
\* Month and day of the acquisitions the data cube may hold in each year.
ImageMonthDays == {<<3, 1>>, <<8, 15>>, <<12, 31>>}

ImageDates ==
    {<<y, md[1], md[2]>> : y \in FirstYear..(FirstYear + NYears - 1),
                           md \in ImageMonthDays}

\* What load_cloudmaskedlandsat returns for one pixel of one timestep: the
\* two band values, both NaN where the pixel is cloud-masked.
Pixel(g, s) == [green |-> g, swir1 |-> s]
Masked == Pixel(NaN, NaN)
PixelValues(bands) == {Pixel(F(g), F(s)) : g \in bands, s \in bands} \cup {Masked}

\* The timestamps of S in increasing order.
RECURSIVE SortedDates(_)
SortedDates(S) ==
    IF S = {} THEN <<>>
    ELSE LET t == CHOOSE a \in S : \A b \in S : DateLe(a, b)
         IN  <<t>> \o SortedDates(S \ {t})

\* A freshly loaded dataset: time-sorted timesteps on one pixel grid, with
\* the bands of the query and no derived variable yet.  The red and blue
\* bands of a pixel have the value of its green band.
Dataset(times, px) ==
    [time        |-> times,
     red         |-> [i \in 1..Len(times) |-> [p \in DOMAIN px[i] |-> px[i][p].green]],
     green       |-> [i \in 1..Len(times) |-> [p \in DOMAIN px[i] |-> px[i][p].green]],
     blue        |-> [i \in 1..Len(times) |-> [p \in DOMAIN px[i] |-> px[i][p].green]],
     swir1       |-> [i \in 1..Len(times) |-> [p \in DOMAIN px[i] |-> px[i][p].swir1]],
     MNDWI       |-> <<>>,
     tide_height |-> <<>>]

EmptyDataset == Dataset(<<>>, <<>>)

\* What the data cube holds for a query: acquisitions on some of `dates`, at
\* most maxImages of them, every pixel of `grid` taking one of `values`.
Holding(maxImages, dates, grid, values) ==
    [maxImages |-> maxImages, dates |-> dates, grid |-> grid, values |-> values]

\* The cube of the pipeline specification: series over all the years with
\* one clear water pixel; series within the first year with one pixel that
\* is masked or has band values 0 and 1; and series within the first year
\* with two pixels, each masked, water or land.
PipelineCube ==
    {Holding(MaxImages, ImageDates, {1}, {Pixel(F(1), F(0))}),
     Holding(MaxImages, {t \in ImageDates : t[1] = FirstYear}, {1}, PixelValues({0, 1})),
     Holding(MaxImages, {t \in ImageDates : t[1] = FirstYear}, {1, 2},
             {Masked, Pixel(F(1), F(0)), Pixel(F(0), F(1))})}
\* The cube of the water-index specification: one timestep, NPix pixels,
\* band values 0..MaxBand.
IndexCube == {Holding(1, {<<FirstYear, 3, 1>>}, 1..NPix, PixelValues(0..MaxBand))}

\* -------------------------------------------------------------- tide files
TideRecord(t, h) == [time |-> t, tide_height |-> h]

\* Tide file of the study area: three records a year, covering every year
\* of the cube.
RECURSIVE TideYears(_, _)
TideYears(y, n) ==
    IF n = 0 THEN <<TideRecord(<<y, 1, 1>>, F(1))>>
    ELSE <<TideRecord(<<y, 1, 1>>, F(1)),
           TideRecord(<<y, 8, 15>>, IF (y - FirstYear) % 2 = 0 THEN F(2) ELSE F(0)),
           TideRecord(<<y, 12, 1>>, F(3))>> \o TideYears(y + 1, n - 1)

\* Tide file that starts after the first acquisition and ends before the last.
ShortTides ==
    <<TideRecord(<<FirstYear, 10, 1>>, F(3)),
      TideRecord(<<FirstYear, 12, 31>>, <<7, 2>>),
      TideRecord(<<FirstYear + NYears - 1, 10, 1>>, F(2))>>

TideFiles == [dalyriver |-> TideYears(FirstYear, NYears), short |-> ShortTides]

\* Tide gauge files of three records with whole heights 0..MaxTide; a file
\* is named by its heights.  The records start after the first acquisition
\* date and end before the last one, and each is on an acquisition date.
GaugeDates == <<<<FirstYear, 8, 15>>, <<FirstYear + 1, 3, 1>>, <<FirstYear + 1, 8, 15>>>>
GaugeFiles ==
    [h \in [1..3 -> 0..MaxTide] |->
        [k \in 1..3 |-> TideRecord(GaugeDates[k], F(h[k]))]]

\* ----------------------------------------------------- the cells' functions
\* Slips of the index formula: the operands of the difference exchanged,
\* the parentheses left out, a division that yields 0 for a zero
\* denominator, and a difference in the denominator.
MNDWI_Swapped(green, swir1) == FDiv(FSub(swir1, green), FAdd(green, swir1))
MNDWI_NoParens(green, swir1) == FAdd(FSub(green, FDiv(swir1, green)), swir1)
MNDWI_ZeroFill(green, swir1) ==
    IF FAdd(green, swir1) = F(0) THEN F(0)
    ELSE FDiv(FSub(green, swir1), FAdd(green, swir1))
MNDWI_MinusDenominator(green, swir1) == FDiv(FSub(green, swir1), FSub(green, swir1))

\* landsat_ds['MNDWI'] = (green - swir1) / (green + swir1), elementwise.
MNDWI(green, swir1) == FDiv(FSub(green, swir1), FAdd(green, swir1))

ComputeMNDWI(ds) ==
    [ds EXCEPT !.MNDWI =
        [i \in 1..Len(ds.time) |->
            [p \in DOMAIN ds.green[i] |-> MNDWI(ds.green[i][p], ds.swir1[i][p])]]]

\* The interpolation without the height of the earlier record: the rise
\* since that record only.
InterpRiseOnly(tide, t) ==
    LET n == Len(tide)
        x == Ordinal(t)
    IN  IF DateLt(t, tide[1].time) \/ DateLt(tide[n].time, t) THEN NaN
        ELSE LET at == CHOOSE i \in 1..n :
                          /\ DateLe(t, tide[i].time)
                          /\ \A j \in 1..(i - 1) : DateLt(tide[j].time, t)
                 hi == IF at < 2 THEN 2 ELSE at
                 lo == hi - 1
                 slope == FDiv(FSub(tide[hi].tide_height, tide[lo].tide_height),
                               F(Ordinal(tide[hi].time) - Ordinal(tide[lo].time)))
             IN  FMul(slope, F(x - Ordinal(tide[lo].time)))

\* The interpolation holding the first and the last height outside the
\* records' span, as numpy.interp does.
InterpHoldEdges(tide, t) ==
    LET n == Len(tide)
        x == Ordinal(t)
    IN  IF DateLt(t, tide[1].time) THEN tide[1].tide_height
        ELSE IF DateLt(tide[n].time, t) THEN tide[n].tide_height
        ELSE LET at == CHOOSE i \in 1..n :
                          /\ DateLe(t, tide[i].time)
                          /\ \A j \in 1..(i - 1) : DateLt(tide[j].time, t)
                 hi == IF at < 2 THEN 2 ELSE at
                 lo == hi - 1
                 slope == FDiv(FSub(tide[hi].tide_height, tide[lo].tide_height),
                               F(Ordinal(tide[hi].time) - Ordinal(tide[lo].time)))
             IN  FAdd(FMul(slope, F(x - Ordinal(tide[lo].time))), tide[lo].tide_height)

\* tide_data_xr.interp(time=t): linear between the two records around t, NaN
\* outside the records' span.
Interp(tide, t) ==
    LET n == Len(tide)
        x == Ordinal(t)
    IN  IF DateLt(t, tide[1].time) \/ DateLt(tide[n].time, t) THEN NaN
        ELSE LET at == CHOOSE i \in 1..n :
                          /\ DateLe(t, tide[i].time)
                          /\ \A j \in 1..(i - 1) : DateLt(tide[j].time, t)
                 hi == IF at < 2 THEN 2 ELSE at
                 lo == hi - 1
                 slope == FDiv(FSub(tide[hi].tide_height, tide[lo].tide_height),
                               F(Ordinal(tide[hi].time) - Ordinal(tide[lo].time)))
             IN  FAdd(FMul(slope, F(x - Ordinal(tide[lo].time))), tide[lo].tide_height)

InterpTides(tide, ds) ==
    [ds EXCEPT !.tide_height = [i \in 1..Len(ds.time) |-> Interp(tide, ds.time[i])]]

\* ds.isel(time=idx)
ISel(ds, idx) ==
    [time        |-> [k \in 1..Len(idx) |-> ds.time[idx[k]]],
     red         |-> [k \in 1..Len(idx) |-> ds.red[idx[k]]],
     green       |-> [k \in 1..Len(idx) |-> ds.green[idx[k]]],
     blue        |-> [k \in 1..Len(idx) |-> ds.blue[idx[k]]],
     swir1       |-> [k \in 1..Len(idx) |-> ds.swir1[idx[k]]],
     MNDWI       |-> [k \in 1..Len(idx) |-> ds.MNDWI[idx[k]]],
     tide_height |-> [k \in 1..Len(idx) |-> ds.tide_height[idx[k]]]]

\* The tide test with the bounds included.
TideCondInclusive(h, range) == FLe(range[1], h) /\ FLe(h, range[2])

\* (tide_height > tide_range[0]) & (tide_height < tide_range[1])
TideCond(h, range) == FGt(h, range[1]) /\ FLt(h, range[2])

\* landsat_ds.where(cond) without drop: every timestep stays, and the data
\* variables of a timestep where the condition is False become NaN.
WhereTideNoDrop(ds, range) ==
    LET Keep(i) == TideCond(ds.tide_height[i], range)
        Blank(raster) == [p \in DOMAIN raster |-> NaN]
        Var(v) == [i \in 1..Len(ds.time) |-> IF Keep(i) THEN v[i] ELSE Blank(v[i])]
    IN  [time        |-> ds.time,
         red         |-> Var(ds.red),
         green       |-> Var(ds.green),
         blue        |-> Var(ds.blue),
         swir1       |-> Var(ds.swir1),
         MNDWI       |-> Var(ds.MNDWI),
         tide_height |-> [i \in 1..Len(ds.time) |->
                            IF Keep(i) THEN ds.tide_height[i] ELSE NaN]]

\* landsat_ds.where(cond, drop=True) for a condition along time: the
\* timesteps where the condition is False are dropped, the others are kept
\* as they are.
WhereTide(ds, range) ==
    LET Keep(i) == TideCond(ds.tide_height[i], range)
    IN  ISel(ds, SelectSeq([i \in 1..Len(ds.time) |-> i], Keep))

\* time_step as pandas reads it: the length of a period in months and
\* whether periods end with the calendar year ('Y') or with a month ('M').
Freq(step) ==
    IF step = "1Y" THEN [months |-> 12, unit |-> "Y"]
    ELSE [months |-> 6, unit |-> "M"]

\* The end of the period that holds t when t is the first timestamp.
PeriodEnd(t, step) ==
    IF Freq(step).unit = "Y" THEN <<t[1], 12, 31>> ELSE MonthEndAfter(t, 0)

\* The labels of the periods that hold a timestep only (a groupby by period
\* instead of a resample).
LabelsOfData(times, step) ==
    LET Own(t) == IF Freq(step).unit = "Y" THEN <<t[1], 12, 31>>
                  ELSE MonthEndAfter(
                         PeriodEnd(times[1], step),
                         Freq(step).months *
                           (((t[1] * 12 + t[2]) - (times[1][1] * 12 + times[1][2])
                               + Freq(step).months - 1) \div Freq(step).months))
    IN  SortedDates({Own(times[i]) : i \in 1..Len(times)})

\* The labels of resample(time=step): the period ends, from the period of
\* the first timestamp to the period of the last, one every Freq.months.
RECURSIVE LabelsFrom(_, _, _)
LabelsFrom(label, last, step) ==
    IF DateLe(last, label) THEN <<label>>
    ELSE <<label>> \o LabelsFrom(MonthEndAfter(label, Freq(step).months), last, step)

Labels(times, step) ==
    LabelsFrom(PeriodEnd(times[1], step), times[Len(times)], step)

\* The bin (right-closed, right-labelled) of timestamp t.
BinOf(t, labels) ==
    CHOOSE k \in 1..Len(labels) :
        DateLe(t, labels[k]) /\ (k = 1 \/ DateLt(labels[k - 1], t))

SetMin(S) == CHOOSE a \in S : \A b \in S : a <= b

\* Position of the first timestep of every bin, 0 for a bin without one.
FirstItems(times, labels) ==
    [k \in 1..Len(labels) |->
        LET S == {i \in 1..Len(times) : BinOf(times[i], labels) = k}
        IN  IF S = {} THEN 0 ELSE SetMin(S)]

\* xarray's composite_times: the timesteps from a bin's first item up to the
\* next bin's first item; the empty sequence for a bin without timesteps.
GroupIndices(times, labels) ==
    LET first == FirstItems(times, labels)
        Later(k) == {first[j] : j \in (k + 1)..Len(labels)} \ {0}
        Stop(k) == IF Later(k) = {} THEN Len(times) ELSE SetMin(Later(k)) - 1
    IN  [k \in 1..Len(labels) |->
            IF first[k] = 0 THEN <<>>
            ELSE [i \in 1..(Stop(k) - first[k] + 1) |-> first[k] + i - 1]]

\* The mean of the values that are not NaN, NaN when there is none.
RECURSIVE FSum(_)
FSum(vals) == IF vals = <<>> THEN F(0) ELSE FAdd(Head(vals), FSum(Tail(vals)))
NanMean(vals) ==
    LET NotNaN(v) == ~IsNaN(v)
        s == SelectSeq(vals, NotNaN)
    IN  IF s = <<>> THEN NaN ELSE FDiv(FSum(s), F(Len(s)))

\* numpy.nanmedian: the median of the values that are not NaN, NaN when
\* there is none.
NanMedian(vals) ==
    LET NotNaN(v) == ~IsNaN(v)
        s == SortSeq(SelectSeq(vals, NotNaN), FLt)
        n == Len(s)
    IN  IF n = 0 THEN NaN
        ELSE IF n % 2 = 1 THEN s[(n + 1) \div 2]
        ELSE FDiv(FAdd(s[n \div 2], s[(n \div 2) + 1]), F(2))

\* ds.MNDWI.resample(time=step): per period, the timesteps grouped into it.
ResampleGroups(ds, step) == GroupIndices(ds.time, Labels(ds.time, step))

\* ds.MNDWI.resample(time=step).median('time') for a dataset with at least
\* one timestep: per period and pixel the median over the period's group.
ResampleMedian(ds, step) ==
    LET labels == Labels(ds.time, step)
        idx    == ResampleGroups(ds, step)
    IN  [time  |-> labels,
         MNDWI |-> [k \in 1..Len(labels) |->
                      [p \in DOMAIN ds.MNDWI[1] |->
                          NanMedian([j \in 1..Len(idx[k]) |-> ds.MNDWI[idx[k][j]][p]])]]]

\* The timestamps of the timesteps of each group.
GroupTimes(ds, step) ==
    LET idx == ResampleGroups(ds, step)
    IN  [k \in 1..Len(idx) |-> [j \in 1..Len(idx[k]) |-> ds.time[idx[k][j]]]]

\* The labels cut after the month: str(i)[0:7].
AttributeDataMonth(resampled) ==
    [time |-> [i \in 1..Len(resampled.time) |-> Slice(StrTime(resampled.time[i]), 0, 7)]]

\* attribute_data = {'time': [str(i)[0:10] for i in landsat_resampled.time.values]}
AttributeData(resampled) ==
    [time |-> [i \in 1..Len(resampled.time) |-> Slice(StrTime(resampled.time[i]), 0, 10)]]

\* min_vertices of the contour_extract call.
min_vertices == 100
\* z_values of the contour_extract call.
z_values == <<F(0)>>

\* ------------------------------------------------ waterline_funcs (utils)
\* True for a raster without any defined value: nothing can be traced on it.
AllUndefined(raster) == \A p \in DOMAIN raster : IsNaN(raster[p])

\* What the contour tracer may find on one raster at one level: a list of
\* polylines, each given by its number of vertices.
Traces == {<<>>, <<min_vertices - 1>>, <<min_vertices, min_vertices - 1, min_vertices + 1>>}

\* The sequences whose i-th element is taken from the i-th set of `sets`.
RECURSIVE Product(_)
Product(sets) ==
    IF sets = <<>> THEN {<<>>}
    ELSE {<<h>> \o t : h \in Head(sets), t \in Product(Tail(sets))}

\* The tracer's results a call may see: one list per level and raster, the
\* empty list for a raster without defined values.
Tracings(zs, ds_array) ==
    Product([z \in 1..Len(zs) |->
        Product([i \in 1..Len(ds_array.time) |->
            IF AllUndefined(ds_array.MNDWI[i]) THEN {<<>>} ELSE Traces])])

\* contour_extract: per level and raster one line geometry, made of the
\* traced polylines with at least minv vertices and tagged with the
\* raster's attributes.
ContourExtract(zs, ds_array, attrs, minv, tr) ==
    LET n == Len(ds_array.time)
        Long(v) == v >= minv
    IN  [k \in 1..(Len(zs) * n) |->
            LET z == ((k - 1) \div n) + 1
                i == ((k - 1) % n) + 1
            IN  [z_value |-> zs[z],
                 time    |-> attrs.time[i],
                 lines   |-> SelectSeq(tr[z][i], Long)]]

\* ------------------------------------------------------------------- state
VARIABLES
    pc,                 \* the next cell to run
    time_step,          \* set-up parameters
    tide_range,
    tide_file,
    landsat_ds,         \* the loaded dataset, with MNDWI and tide_height once added
    tide_data,          \* the records of the tide file
    landsat_hightide,   \* the tide-filtered dataset
    landsat_resampled,  \* the composites
    composite_times,    \* per composite, the timestamps of the timesteps reduced into it
    attribute_data,     \* the labels handed to contour_extract
    traced,             \* what the tracer found in the contour_extract call
    contour_gdf,        \* the shorelines
    previous,           \* the set-up parameters of the run before this one
    diy_pc,             \* do-it-yourself notebook: position in the plotting cell
    importable,         \* what importing each module does in this environment
    three_band_image,   \* the module the name three_band_image is bound from
    raised              \* the exception that reached the user

\* The kernel of the coastal erosion notebook and of the do-it-yourself
\* notebook.
coastal_vars == <<pc, time_step, tide_range, tide_file, landsat_ds, tide_data,
                  landsat_hightide, landsat_resampled, composite_times,
                  attribute_data, traced, contour_gdf, previous>>
diy_vars == <<diy_pc, importable, three_band_image, raised>>

vars == <<coastal_vars, diy_vars>>

TimeSteps == {"1Y", "6M"}
TideRanges == {<<F(0), <<7, 2>>>>, <<F(0), F(2)>>}

NoComposites == [time |-> <<>>, MNDWI |-> <<>>]

\* No run of the analysis came before this one.
NoRun == <<>>

\* The modules the plotting cell of the do-it-yourself notebook imports, and
\* what importing from one of them can do: succeed, fail because the top
\* package or the module is not found, fail because the module has no such
\* name, or raise something else while the module's code runs.
Modules == {"matplotlib.pyplot", "utils.utils", "examples.utils.utils"}
Outcomes == {"ok", "no_package", "no_module", "no_name", "raises"}

\* The exception of an import with outcome o.
ExceptionOf(o) ==
    CASE o = "ok" -> "none"
      [] o \in {"no_package", "no_module"} -> "ModuleNotFoundError"
      [] o = "no_name" -> "ImportError"
      [] o = "raises" -> "Exception"

\* except ImportError: ModuleNotFoundError is a subclass of ImportError.
IsImportError(e) == e \in {"ImportError", "ModuleNotFoundError"}

Init ==
    /\ pc = "setup"
    /\ time_step = "1Y"
    /\ tide_range = <<F(0), <<7, 2>>>>
    /\ tide_file = "dalyriver"
    /\ landsat_ds = EmptyDataset
    /\ tide_data = <<>>
    /\ landsat_hightide = EmptyDataset
    /\ landsat_resampled = NoComposites
    /\ composite_times = <<>>
    /\ attribute_data = [time |-> <<>>]
    /\ traced = <<>>
    /\ contour_gdf = <<>>
    /\ previous = NoRun
    /\ diy_pc = "plt"
    /\ importable = [m \in Modules |-> "ok"]
    /\ three_band_image = "unbound"
    /\ raised = "none"

\* ------------------------------------------------------------------- cells
\* "Set up analysis": the user's parameters.
SetUpAnalysis ==
    /\ pc = "setup"
    /\ time_step' \in TimeSteps
    /\ tide_range' \in TideRanges
    /\ tide_file' \in DOMAIN TideFiles
    /\ pc' = "load"
    /\ UNCHANGED <<previous, diy_vars, landsat_ds, tide_data, landsat_hightide, landsat_resampled,
                   composite_times, attribute_data, traced, contour_gdf>>

\* "Load cloud-masked Landsat data": landsat_ds is what the cube returns, a
\* series of at least one timestep.
LoadLandsat(cube) ==
    /\ pc = "load"
    /\ \E c \in cube : \E S \in SUBSET c.dates :
          /\ Cardinality(S) \in 1..c.maxImages
          /\ \E px \in [1..Cardinality(S) -> [c.grid -> c.values]] :
                landsat_ds' = Dataset(SortedDates(S), px)
    /\ pc' = "mndwi"
    /\ UNCHANGED <<previous, diy_vars, time_step, tide_range, tide_file, tide_data, landsat_hightide,
                   landsat_resampled, composite_times, attribute_data, traced,
                   contour_gdf>>

\* "Compute Modified Normalised Difference Water Index"
ComputeIndex ==
    /\ pc = "mndwi"
    /\ landsat_ds' = ComputeMNDWI(landsat_ds)
    /\ pc' = "tides"
    /\ UNCHANGED <<previous, diy_vars, time_step, tide_range, tide_file, tide_data, landsat_hightide,
                   landsat_resampled, composite_times, attribute_data, traced,
                   contour_gdf>>

\* "Import tide height data": pd.read_csv(tide_file)
ImportTides(files) ==
    /\ pc = "tides"
    /\ tide_data' = files[tide_file]
    /\ pc' = "interp"
    /\ UNCHANGED <<previous, diy_vars, time_step, tide_range, tide_file, landsat_ds, landsat_hightide,
                   landsat_resampled, composite_times, attribute_data, traced,
                   contour_gdf>>

\* The interpolation cell: landsat_ds['tide_height']
InterpolateTides ==
    /\ pc = "interp"
    /\ landsat_ds' = InterpTides(tide_data, landsat_ds)
    /\ pc' = "filter"
    /\ UNCHANGED <<previous, diy_vars, time_step, tide_range, tide_file, tide_data, landsat_hightide,
                   landsat_resampled, composite_times, attribute_data, traced,
                   contour_gdf>>

\* The tide filter assigned back to landsat_ds.
FilterTidesInPlace ==
    /\ pc = "filter"
    /\ landsat_hightide' = WhereTide(landsat_ds, tide_range)
    /\ landsat_ds' = landsat_hightide'
    /\ pc' = "resample"
    /\ UNCHANGED <<previous, diy_vars, time_step, tide_range, tide_file, tide_data,
                   landsat_resampled, composite_times, attribute_data, traced,
                   contour_gdf>>

\* "Filter Landsat images by tide height"
FilterTides ==
    /\ pc = "filter"
    /\ landsat_hightide' = WhereTide(landsat_ds, tide_range)
    /\ pc' = "resample"
    /\ UNCHANGED <<previous, diy_vars, time_step, tide_range, tide_file, landsat_ds, tide_data,
                   landsat_resampled, composite_times, attribute_data, traced,
                   contour_gdf>>

\* The summary cell applied to landsat_ds, the dataset before the tide filter.
ResampleUnfiltered ==
    /\ pc = "resample"
    /\ landsat_resampled' = ResampleMedian(landsat_ds, time_step)
    /\ composite_times' = GroupTimes(landsat_ds, time_step)
    /\ pc' = "extract"
    /\ UNCHANGED <<previous, diy_vars, time_step, tide_range, tide_file, landsat_ds, tide_data,
                   landsat_hightide, attribute_data, traced, contour_gdf>>

\* The summary cell computing the composites only when the kernel holds none.
ResampleOnce ==
    /\ pc = "resample"
    /\ IF Len(landsat_hightide.time) = 0
       THEN /\ pc' = "failed"
            /\ UNCHANGED <<landsat_resampled, composite_times>>
       ELSE IF landsat_resampled # NoComposites
       THEN /\ pc' = "extract"
            /\ UNCHANGED <<landsat_resampled, composite_times>>
       ELSE /\ landsat_resampled' = ResampleMedian(landsat_hightide, time_step)
            /\ composite_times' = GroupTimes(landsat_hightide, time_step)
            /\ pc' = "extract"
    /\ UNCHANGED <<previous, diy_vars, time_step, tide_range, tide_file, landsat_ds,
                   tide_data, landsat_hightide, attribute_data, traced, contour_gdf>>

\* "Create water index summary images".  Resampling a dataset without any
\* timestep raises, and the run stops at this cell.
Resample ==
    /\ pc = "resample"
    /\ IF Len(landsat_hightide.time) = 0
       THEN /\ pc' = "failed"
            /\ UNCHANGED <<landsat_resampled, composite_times>>
       ELSE /\ landsat_resampled' = ResampleMedian(landsat_hightide, time_step)
            /\ composite_times' = GroupTimes(landsat_hightide, time_step)
            /\ pc' = "extract"
    /\ UNCHANGED <<previous, diy_vars, time_step, tide_range, tide_file, landsat_ds, tide_data,
                   landsat_hightide, attribute_data, traced, contour_gdf>>

\* The extraction cell without a minimum number of vertices.
ExtractShorelinesAnyLength ==
    /\ pc = "extract"
    /\ attribute_data' = AttributeData(landsat_resampled)
    /\ traced' \in Tracings(z_values, landsat_resampled)
    /\ contour_gdf' = ContourExtract(z_values, landsat_resampled, attribute_data',
                                     0, traced')
    /\ pc' = "done"
    /\ UNCHANGED <<previous, diy_vars, time_step, tide_range, tide_file, landsat_ds, tide_data,
                   landsat_hightide, landsat_resampled, composite_times>>

\* "Extract shorelines from imagery"
ExtractShorelines ==
    /\ pc = "extract"
    /\ attribute_data' = AttributeData(landsat_resampled)
    /\ traced' \in Tracings(z_values, landsat_resampled)
    /\ contour_gdf' = ContourExtract(z_values, landsat_resampled, attribute_data',
                                     min_vertices, traced')
    /\ pc' = "done"
    /\ UNCHANGED <<previous, diy_vars, time_step, tide_range, tide_file, landsat_ds, tide_data,
                   landsat_hightide, landsat_resampled, composite_times>>

Next ==
    \/ SetUpAnalysis
    \/ LoadLandsat(PipelineCube)
    \/ ComputeIndex
    \/ ImportTides(TideFiles)
    \/ InterpolateTides
    \/ FilterTides
    \/ Resample
    \/ ExtractShorelines

Spec == Init /\ [][Next]_vars

\* The water-index specification: the load and index cells, on a cube with
\* all band values 0..MaxBand and NPix pixels.
NextIndex ==
    \/ LoadLandsat(IndexCube)
    \/ ComputeIndex

\* The state once the set-up cell has run with the notebook's own values.
InitIndex ==
    /\ pc = "load"
    /\ time_step = "1Y"
    /\ tide_range = <<F(0), <<7, 2>>>>
    /\ tide_file = "dalyriver"
    /\ landsat_ds = EmptyDataset
    /\ tide_data = <<>>
    /\ landsat_hightide = EmptyDataset
    /\ landsat_resampled = NoComposites
    /\ composite_times = <<>>
    /\ attribute_data = [time |-> <<>>]
    /\ traced = <<>>
    /\ contour_gdf = <<>>
    /\ previous = NoRun
    /\ diy_pc = "plt"
    /\ importable = [m \in Modules |-> "ok"]
    /\ three_band_image = "unbound"
    /\ raised = "none"

SpecIndex == InitIndex /\ [][NextIndex]_vars

\* The tide specification: the cells from the load to the tide filter, on
\* series of one or two images of a clear pixel and on all the gauge files.
TideCube == {Holding(2, ImageDates, {1}, {Pixel(F(1), F(0))})}

NextTides ==
    \/ LoadLandsat(TideCube)
    \/ ComputeIndex
    \/ ImportTides(GaugeFiles)
    \/ InterpolateTides
    \/ FilterTides

InitTides ==
    /\ pc = "load"
    /\ time_step = "1Y"
    /\ tide_range \in TideRanges
    /\ tide_file \in DOMAIN GaugeFiles
    /\ landsat_ds = EmptyDataset
    /\ tide_data = <<>>
    /\ landsat_hightide = EmptyDataset
    /\ landsat_resampled = NoComposites
    /\ composite_times = <<>>
    /\ attribute_data = [time |-> <<>>]
    /\ traced = <<>>
    /\ contour_gdf = <<>>
    /\ previous = NoRun
    /\ diy_pc = "plt"
    /\ importable = [m \in Modules |-> "ok"]
    /\ three_band_image = "unbound"
    /\ raised = "none"

SpecTides == InitTides /\ [][NextTides]_vars

\* "Return to the Set up analysis cell, modify some values and rerun the
\* analysis": the kernel keeps every variable of the run before.
Rerun ==
    /\ pc \in {"done", "failed"}
    /\ previous' = <<time_step, tide_range, tide_file>>
    /\ pc' = "setup"
    /\ UNCHANGED <<diy_vars, time_step, tide_range, tide_file, landsat_ds, tide_data,
                   landsat_hightide, landsat_resampled, composite_times,
                   attribute_data, traced, contour_gdf>>

\* The user runs the cells one by one and goes on to the extraction cell
\* after the summary cell raised.  The cell can run when the kernel holds a
\* landsat_resampled, that of an earlier run; without one it raises as well.
CarryOn ==
    /\ pc = "failed"
    /\ landsat_resampled # NoComposites
    /\ pc' = "extract"
    /\ UNCHANGED <<previous, diy_vars, time_step, tide_range, tide_file, landsat_ds,
                   tide_data, landsat_hightide, landsat_resampled, composite_times,
                   attribute_data, traced, contour_gdf>>

\* The session specification: runs of the analysis one after the other in
\* one kernel, on series of one or two images of a clear pixel.
RerunCube ==
    {Holding(MaxImages, {<<FirstYear, 8, 15>>, <<FirstYear + 1, 8, 15>>}, {1},
             {Pixel(F(1), F(0))})}

NextRerun ==
    \/ SetUpAnalysis
    \/ LoadLandsat(RerunCube)
    \/ ComputeIndex
    \/ ImportTides(TideFiles)
    \/ InterpolateTides
    \/ FilterTides
    \/ Resample
    \/ ExtractShorelines
    \/ Rerun
    \/ CarryOn

SpecRerun == Init /\ [][NextRerun]_vars

\* ---------------------------------- the do-it-yourself notebook's plotting cell
\* import matplotlib.pyplot as plt
ImportPyplot ==
    /\ diy_pc = "plt"
    /\ IF importable["matplotlib.pyplot"] = "ok"
       THEN diy_pc' = "try" /\ raised' = raised
       ELSE diy_pc' = "error" /\ raised' = ExceptionOf(importable["matplotlib.pyplot"])
    /\ UNCHANGED <<coastal_vars, importable, three_band_image>>

\* The try statement with a bare except clause: every exception of the first
\* import leads to the second import.
TryImportCatchAll ==
    /\ diy_pc = "try"
    /\ IF ExceptionOf(importable["utils.utils"]) = "none"
       THEN /\ three_band_image' = "utils.utils"
            /\ diy_pc' = "prepare"
            /\ raised' = raised
       ELSE /\ diy_pc' = "except"
            /\ UNCHANGED <<three_band_image, raised>>
    /\ UNCHANGED <<coastal_vars, importable>>

\* try: from utils.utils import three_band_image
\* An ImportError leads to the except clause, any other exception leaves the
\* cell.
TryImport ==
    /\ diy_pc = "try"
    /\ LET e == ExceptionOf(importable["utils.utils"])
       IN  IF e = "none"
           THEN /\ three_band_image' = "utils.utils"
                /\ diy_pc' = "prepare"
                /\ raised' = raised
           ELSE IF IsImportError(e)
           THEN /\ diy_pc' = "except"
                /\ UNCHANGED <<three_band_image, raised>>
           ELSE /\ diy_pc' = "error"
                /\ raised' = e
                /\ UNCHANGED three_band_image
    /\ UNCHANGED <<coastal_vars, importable>>

\* except ImportError: from examples.utils.utils import three_band_image
ExceptImport ==
    /\ diy_pc = "except"
    /\ LET e == ExceptionOf(importable["examples.utils.utils"])
       IN  IF e = "none"
           THEN /\ three_band_image' = "examples.utils.utils"
                /\ diy_pc' = "prepare"
                /\ raised' = raised
           ELSE /\ diy_pc' = "error"
                /\ raised' = e
                /\ UNCHANGED three_band_image
    /\ UNCHANGED <<coastal_vars, importable>>

\* img_toshow = three_band_image(...) and the plot: the rest of the cell.
PrepareImage ==
    /\ diy_pc = "prepare"
    /\ three_band_image # "unbound"
    /\ diy_pc' = "done"
    /\ UNCHANGED <<coastal_vars, importable, three_band_image, raised>>

NextImport ==
    \/ ImportPyplot
    \/ TryImport
    \/ ExceptImport
    \/ PrepareImage

\* The environments of the plotting cell: matplotlib is installed or not,
\* and each of the two utils modules imports in one of the five ways.
InitImport ==
    /\ pc = "setup"
    /\ time_step = "1Y"
    /\ tide_range = <<F(0), <<7, 2>>>>
    /\ tide_file = "dalyriver"
    /\ landsat_ds = EmptyDataset
    /\ tide_data = <<>>
    /\ landsat_hightide = EmptyDataset
    /\ landsat_resampled = NoComposites
    /\ composite_times = <<>>
    /\ attribute_data = [time |-> <<>>]
    /\ traced = <<>>
    /\ contour_gdf = <<>>
    /\ previous = NoRun
    /\ diy_pc = "plt"
    /\ importable \in {f \in [Modules -> Outcomes] :
                           f["matplotlib.pyplot"] \in {"ok", "no_package"}}
    /\ three_band_image = "unbound"
    /\ raised = "none"

SpecImport == InitImport /\ [][NextImport]_vars

\* ================================================================== claims
\* The cells that have run, read off the next cell to run.
IndexComputed == pc \notin {"setup", "load", "mndwi"}
TidesFiltered == pc \in {"resample", "extract", "done", "failed"}
Composited == pc \in {"extract", "done"}
Extracted == pc = "done"

\* The timesteps and pixels of the loaded dataset.
Steps == 1..Len(landsat_ds.time)
PixelsOf(i) == DOMAIN landsat_ds.green[i]

Range(s) == {s[i] : i \in DOMAIN s}

\* v is the float a/b for integers a and b: in lowest terms by cross
\* multiplication, +-inf for b = 0 # a, NaN for a = b = 0.
IsQuotient(v, a, b) ==
    IF b = 0 THEN v = <<Sign(a), 0>>
    ELSE /\ v[2] > 0
         /\ v[1] * b = a * v[2]
         /\ \A k \in 2..v[2] : ~(v[1] % k = 0 /\ v[2] % k = 0)

\* The pixel holds two numbers (it is not masked).
Unmasked(i, p) == IsFinite(landsat_ds.green[i][p]) /\ IsFinite(landsat_ds.swir1[i][p])

\* The index of pixel p of timestep i is the quotient of its own two bands.
IndexIsQuotient(i, p) ==
    IF Unmasked(i, p)
    THEN IsQuotient(landsat_ds.MNDWI[i][p],
                    landsat_ds.green[i][p][1] - landsat_ds.swir1[i][p][1],
                    landsat_ds.green[i][p][1] + landsat_ds.swir1[i][p][1])
    ELSE IsNaN(landsat_ds.MNDWI[i][p])

\* C1: the tide filter keeps a timestep exactly when its tide height is
\* strictly above tide_range[0] and strictly below tide_range[1]; a tide on
\* either bound, outside the range or undefined removes the timestep.
StrictlyInside(h, range) ==
    /\ h[2] > 0
    /\ range[1][1] * h[2] < h[1] * range[1][2]
    /\ h[1] * range[2][2] < range[2][1] * h[2]

C1_TideFilterStrict ==
    TidesFiltered =>
        /\ \A i \in Steps :
              (landsat_ds.time[i] \in Range(landsat_hightide.time))
                 <=> StrictlyInside(landsat_ds.tide_height[i], tide_range)
        /\ Range(landsat_hightide.time) \subseteq Range(landsat_ds.time)
        /\ Len(landsat_hightide.time) = Cardinality(Range(landsat_hightide.time))

\* A run where one timestep with the tide on the upper bound and one with
\* the tide on the lower bound were removed and another timestep was kept.
C1_Witness ==
    /\ TidesFiltered
    /\ \E i, j, k \in Steps :
          /\ landsat_ds.tide_height[i] = tide_range[2]
          /\ landsat_ds.tide_height[j] = tide_range[1]
          /\ landsat_ds.time[i] \notin Range(landsat_hightide.time)
          /\ landsat_ds.time[j] \notin Range(landsat_hightide.time)
          /\ landsat_ds.time[k] \in Range(landsat_hightide.time)

\* C2: at every pixel of every timestep MNDWI is (green - swir1) /
\* (green + swir1) of that pixel and timestep, equal band values give equal
\* indices, and green = 3, swir1 = 1 gives 0.5.
C2_IndexFormula ==
    IndexComputed =>
        /\ \A i \in Steps : \A p \in PixelsOf(i) : IndexIsQuotient(i, p)
        /\ \A i, j \in Steps : \A p \in PixelsOf(i) : \A q \in PixelsOf(j) :
              (landsat_ds.green[i][p] = landsat_ds.green[j][q]
                 /\ landsat_ds.swir1[i][p] = landsat_ds.swir1[j][q])
              => landsat_ds.MNDWI[i][p] = landsat_ds.MNDWI[j][q]
        /\ \A i \in Steps : \A p \in PixelsOf(i) :
              (landsat_ds.green[i][p] = F(3) /\ landsat_ds.swir1[i][p] = F(1))
              => landsat_ds.MNDWI[i][p] = <<1, 2>>

\* The index was computed for a pixel with green = 3 and swir1 = 1 and for
\* another pixel with other band values.
C2_Witness ==
    /\ IndexComputed
    /\ \E i \in Steps : \E p, q \in PixelsOf(i) :
          /\ landsat_ds.green[i][p] = F(3) /\ landsat_ds.swir1[i][p] = F(1)
          /\ landsat_ds.MNDWI[i][p] = <<1, 2>>
          /\ landsat_ds.green[i][q] = F(1) /\ landsat_ds.swir1[i][q] = F(2)
          /\ landsat_ds.MNDWI[i][q] = <<-1, 3>>

\* C3: for non-negative green and swir1 with a non-zero sum the index is a
\* number between -1 and 1, both included.
C3_IndexInUnitInterval ==
    IndexComputed =>
        \A i \in Steps : \A p \in PixelsOf(i) :
            (/\ Unmasked(i, p)
             /\ landsat_ds.green[i][p][1] >= 0
             /\ landsat_ds.swir1[i][p][1] >= 0
             /\ landsat_ds.green[i][p][1] + landsat_ds.swir1[i][p][1] # 0)
            => /\ landsat_ds.MNDWI[i][p][2] > 0
               /\ -landsat_ds.MNDWI[i][p][2] <= landsat_ds.MNDWI[i][p][1]
               /\ landsat_ds.MNDWI[i][p][1] <= landsat_ds.MNDWI[i][p][2]

\* The index was computed and reaches both ends of the interval: 1 at a
\* pixel without swir1 and -1 at a pixel without green.
C3_Witness ==
    /\ IndexComputed
    /\ \E i \in Steps : \E p, q \in PixelsOf(i) :
          /\ landsat_ds.green[i][p][1] > 0 /\ landsat_ds.swir1[i][p] = F(0)
          /\ landsat_ds.MNDWI[i][p] = F(1)
          /\ landsat_ds.green[i][q] = F(0) /\ landsat_ds.swir1[i][q][1] > 0
          /\ landsat_ds.MNDWI[i][q] = F(-1)

\* C4: where green and swir1 are both zero the index is NaN, and the index
\* of every other pixel and timestep is the quotient of its own bands.
C4_ZeroOverZeroIsNaN ==
    IndexComputed =>
        \A i \in Steps : \A p \in PixelsOf(i) :
            (landsat_ds.green[i][p] = F(0) /\ landsat_ds.swir1[i][p] = F(0))
            => /\ IsNaN(landsat_ds.MNDWI[i][p])
               /\ \A j \in Steps : \A q \in PixelsOf(j) :
                     (<<j, q>> # <<i, p>>
                        /\ Unmasked(j, q)
                        /\ landsat_ds.green[j][q][1] + landsat_ds.swir1[j][q][1] # 0)
                     => /\ IsFinite(landsat_ds.MNDWI[j][q])
                        /\ IndexIsQuotient(j, q)

\* The index was computed for an image with a pixel whose bands are both
\* zero beside a pixel with a defined index.
C4_Witness ==
    /\ IndexComputed
    /\ \E i \in Steps : \E p, q \in PixelsOf(i) :
          /\ landsat_ds.green[i][p] = F(0) /\ landsat_ds.swir1[i][p] = F(0)
          /\ IsNaN(landsat_ds.MNDWI[i][p])
          /\ landsat_ds.green[i][q] = F(2) /\ landsat_ds.swir1[i][q] = F(1)
          /\ landsat_ds.MNDWI[i][q] = <<1, 3>>

\* C5 as stated: wherever green equals swir1 the index is NaN.
C5_EqualBandsGiveNaN ==
    IndexComputed =>
        \A i \in Steps : \A p \in PixelsOf(i) :
            (Unmasked(i, p) /\ landsat_ds.green[i][p] = landsat_ds.swir1[i][p])
            => IsNaN(landsat_ds.MNDWI[i][p])

\* C5 as amended: wherever green equals swir1 the index is 0 when the common
\* band value is not zero, and NaN only when both bands are zero.
C5_EqualBandsGiveZero ==
    IndexComputed =>
        \A i \in Steps : \A p \in PixelsOf(i) :
            (Unmasked(i, p) /\ landsat_ds.green[i][p] = landsat_ds.swir1[i][p])
            => IF landsat_ds.green[i][p][1] = 0
               THEN IsNaN(landsat_ds.MNDWI[i][p])
               ELSE landsat_ds.MNDWI[i][p][1] = 0 /\ landsat_ds.MNDWI[i][p][2] = 1

\* The index was computed for a pixel with green = swir1 = 2, where it is
\* 0, beside a pixel with green = swir1 = 0, where it is NaN.
C5_Witness ==
    /\ IndexComputed
    /\ \E i \in Steps : \E p, q \in PixelsOf(i) :
          /\ landsat_ds.green[i][p] = F(2) /\ landsat_ds.swir1[i][p] = F(2)
          /\ landsat_ds.MNDWI[i][p] = F(0)
          /\ landsat_ds.green[i][q] = F(0) /\ landsat_ds.swir1[i][q] = F(0)
          /\ IsNaN(landsat_ds.MNDWI[i][q])

\* The timesteps of the loaded dataset that pass the tide filter.
Retained == {i \in Steps : StrictlyInside(landsat_ds.tide_height[i], tide_range)}
RetainedTimes == {landsat_ds.time[i] : i \in Retained}

Composites == 1..Len(landsat_resampled.time)

\* Months since year 0 of the month of timestamp t.
MonthIndex(t) == t[1] * 12 + t[2]

\* Timestamp t lies in the calendar period that ends with `label`: the
\* year of the label for '1Y', the six months up to the label for '6M'.
InPeriod(t, label, step) ==
    IF step = "1Y" THEN t[1] = label[1]
    ELSE MonthIndex(label) - 6 < MonthIndex(t) /\ MonthIndex(t) <= MonthIndex(label)

\* C6: every composite is built from exactly the retained timesteps of its
\* period; a timestep removed by the tide filter is in no composite and a
\* retained timestep is in exactly one.
C6_CompositeMembers ==
    Composited =>
        /\ Len(composite_times) = Len(landsat_resampled.time)
        /\ \A k \in Composites :
              /\ Range(composite_times[k]) =
                    {t \in RetainedTimes : InPeriod(t, landsat_resampled.time[k], time_step)}
              /\ Len(composite_times[k]) = Cardinality(Range(composite_times[k]))
        /\ \A i \in Steps \ Retained : \A k \in Composites :
              landsat_ds.time[i] \notin Range(composite_times[k])
        /\ \A i \in Retained :
              Cardinality({k \in Composites :
                              landsat_ds.time[i] \in Range(composite_times[k])}) = 1

\* Composites exist while the tide filter removed a timestep and kept two
\* timesteps that went into different composites.
C6_Witness ==
    /\ Composited
    /\ Steps \ Retained # {}
    /\ \E k, l \in Composites :
          k # l /\ composite_times[k] # <<>> /\ composite_times[l] # <<>>

\* The timesteps reduced into composite k whose index at pixel p is defined.
Defined(k, p) ==
    {i \in Steps : /\ landsat_ds.time[i] \in Range(composite_times[k])
                   /\ ~IsNaN(landsat_ds.MNDWI[i][p])}

\* Order of two finite floats.
Less(a, b) == a[1] * b[2] < b[1] * a[2]

\* The r-th smallest index value at pixel p among the timesteps J.
OrderStat(J, p, r) ==
    LET x(i) == landsat_ds.MNDWI[i][p]
        i == CHOOSE c \in J :
                /\ Cardinality({j \in J : Less(x(j), x(c))}) < r
                /\ r <= Cardinality({j \in J : ~Less(x(c), x(j))})
    IN  x(i)

\* v is the median of the index values at pixel p over the timesteps J: the
\* middle value, or halfway between the two middle values.
IsMedian(v, J, p) ==
    LET n == Cardinality(J)
        a == OrderStat(J, p, (n + 1) \div 2)
        b == OrderStat(J, p, (n \div 2) + 1)
    IN  /\ v[2] > 0
        /\ 2 * v[1] * a[2] * b[2] = v[2] * (a[1] * b[2] + b[1] * a[2])

\* C7: a composite pixel is the median of the defined index values at that
\* pixel over the retained timesteps of the period; undefined values are
\* skipped, and the pixel is undefined only when no timestep of the period
\* has a defined value there.
C7_CompositeIsMedian ==
    Composited =>
        \A k \in Composites : \A p \in DOMAIN landsat_resampled.MNDWI[k] :
            IF Defined(k, p) = {}
            THEN IsNaN(landsat_resampled.MNDWI[k][p])
            ELSE IsMedian(landsat_resampled.MNDWI[k][p], Defined(k, p), p)

\* A composite of three timesteps: at one pixel all three values are
\* defined and not all equal, at another pixel one of them is undefined
\* and the composite is defined all the same.
C7_Witness ==
    /\ Composited
    /\ \E k \in Composites : \E p, q \in DOMAIN landsat_resampled.MNDWI[k] :
          /\ Len(composite_times[k]) = 3
          /\ Cardinality(Defined(k, p)) = 3
          /\ Cardinality({landsat_ds.MNDWI[i][p] : i \in Defined(k, p)}) = 2
          /\ Cardinality(Defined(k, q)) = 2
          /\ IsFinite(landsat_resampled.MNDWI[k][q])

\* The years of a set of timestamps.
Years(T) == {t[1] : t \in T}

Earliest(T) == CHOOSE a \in T : \A b \in T : MonthIndex(a) <= MonthIndex(b)
Latest(T) == CHOOSE a \in T : \A b \in T : MonthIndex(b) <= MonthIndex(a)

DigitValue(c) == CHOOSE k \in 0..9 : Digit(k) = c
RECURSIVE Number(_, _, _)
Number(s, a, b) == IF a > b THEN 0 ELSE Number(s, a, b - 1) * 10 + DigitValue(s[b])

\* C9: the contour extraction gets one label per composite, in composite
\* order, each the ten-character date of the composite's timestamp, and the
\* shoreline output holds one line geometry per composite, traced at level 0
\* and carrying that composite's label.
C9_OneLabelledLinePerComposite ==
    Extracted =>
        /\ Len(attribute_data.time) = Len(landsat_resampled.time)
        /\ \A i \in Composites :
              /\ Len(attribute_data.time[i]) = 10
              /\ attribute_data.time[i][5] = "-" /\ attribute_data.time[i][8] = "-"
              /\ <<Number(attribute_data.time[i], 1, 4),
                   Number(attribute_data.time[i], 6, 7),
                   Number(attribute_data.time[i], 9, 10)>> = landsat_resampled.time[i]
        /\ Len(contour_gdf) = Len(landsat_resampled.time)
        /\ \A i \in Composites :
              /\ contour_gdf[i].z_value = F(0)
              /\ contour_gdf[i].time = attribute_data.time[i]

\* A finished run with several composites, one of them with a shoreline of
\* at least one polyline.
C9_Witness ==
    /\ Extracted
    /\ Len(landsat_resampled.time) >= 3
    /\ \E i \in DOMAIN contour_gdf : contour_gdf[i].lines # <<>>

\* How often v occurs in sequence s.
Count(s, v) == Cardinality({i \in DOMAIN s : s[i] = v})

\* C10: every polyline of the shoreline output has at least min_vertices
\* vertices: of the traced contours exactly those with fewer are missing.
C10_MinVertices ==
    Extracted =>
        \A i \in DOMAIN contour_gdf :
            /\ \A j \in DOMAIN contour_gdf[i].lines :
                  contour_gdf[i].lines[j] >= min_vertices
            /\ \A v \in Range(traced[1][i]) :
                  Count(contour_gdf[i].lines, v) =
                     IF v >= min_vertices THEN Count(traced[1][i], v) ELSE 0

\* A finished run where the tracer found a contour below and contours at
\* and above min_vertices on one composite: the short one is missing.
C10_Witness ==
    /\ Extracted
    /\ \E i \in DOMAIN contour_gdf :
          /\ min_vertices - 1 \in Range(traced[1][i])
          /\ min_vertices \in Range(traced[1][i])
          /\ min_vertices - 1 \notin Range(contour_gdf[i].lines)
          /\ min_vertices \in Range(contour_gdf[i].lines)

\* The interpolation cell has run.
TidesInterpolated == pc \in {"filter", "resample", "extract", "done", "failed"}

\* Two finite floats have the same value; v is not below a and not above b.
SameValue(a, b) == a[2] > 0 /\ b[2] > 0 /\ a[1] * b[2] = b[1] * a[2]
Within(v, a, b) == v[2] > 0 /\ ~Less(v, a) /\ ~Less(b, v)

\* C11: every image timestep has one tide-height estimate; the estimate of
\* a timestep between two consecutive tide records is not below the lower
\* and not above the higher of the two recorded heights, and the estimate
\* of a timestep on a tide record is that record's height.
C11_TideEstimates ==
    TidesInterpolated =>
        /\ DOMAIN landsat_ds.tide_height = Steps
        /\ \A i \in Steps : \A k \in 1..(Len(tide_data) - 1) :
              LET a == tide_data[k]
                  b == tide_data[k + 1]
              IN  (DateLe(a.time, landsat_ds.time[i]) /\ DateLe(landsat_ds.time[i], b.time))
                  => \/ Within(landsat_ds.tide_height[i], a.tide_height, b.tide_height)
                     \/ Within(landsat_ds.tide_height[i], b.tide_height, a.tide_height)
        /\ \A i \in Steps : \A k \in DOMAIN tide_data :
              landsat_ds.time[i] = tide_data[k].time
              => SameValue(landsat_ds.tide_height[i], tide_data[k].tide_height)

\* A series with a timestep strictly between two records of different
\* heights, its estimate strictly between them, and with a timestep on the
\* first record of the file, whose height differs from the second record's.
C11_Witness ==
    /\ TidesInterpolated
    /\ \E i \in Steps : \E k \in 1..(Len(tide_data) - 1) :
          /\ DateLt(tide_data[k].time, landsat_ds.time[i])
          /\ DateLt(landsat_ds.time[i], tide_data[k + 1].time)
          /\ Less(tide_data[k + 1].tide_height, tide_data[k].tide_height)
          /\ Less(tide_data[k + 1].tide_height, landsat_ds.tide_height[i])
          /\ Less(landsat_ds.tide_height[i], tide_data[k].tide_height)
    /\ \E j \in Steps :
          /\ landsat_ds.time[j] = tide_data[1].time
          /\ ~SameValue(tide_data[1].tide_height, tide_data[2].tide_height)
          /\ SameValue(landsat_ds.tide_height[j], tide_data[1].tide_height)

\* Every result held by the kernel is the one that the cells compute from
\* the set-up parameters and the loaded bands now in the kernel.
Determined ==
    /\ tide_data = TideFiles[tide_file]
    /\ landsat_ds.MNDWI = ComputeMNDWI(landsat_ds).MNDWI
    /\ landsat_ds.tide_height = InterpTides(tide_data, landsat_ds).tide_height
    /\ landsat_hightide = WhereTide(landsat_ds, tide_range)
    /\ Len(landsat_hightide.time) > 0
    /\ landsat_resampled = ResampleMedian(landsat_hightide, time_step)
    /\ composite_times = GroupTimes(landsat_hightide, time_step)
    /\ attribute_data = AttributeData(landsat_resampled)
    /\ contour_gdf = ContourExtract(z_values, landsat_resampled, attribute_data,
                                    min_vertices, traced)

\* The last cell of a run that followed another run has been executed.
RerunFinished == pc = "done" /\ previous # NoRun

Importable(m) == importable[m] = "ok"

\* The first import raises an ImportError.
FirstRaisesImportError == IsImportError(ExceptionOf(importable["utils.utils"]))

\* The try statement of the plotting cell has been left.
ImportSettled == diy_pc \in {"prepare", "done", "error"} /\ Importable("matplotlib.pyplot")

\* The second import is about to run, or has run and bound the name.
SecondTried == diy_pc = "except" \/ three_band_image = "examples.utils.utils"

\* C13 as stated: three_band_image is bound whenever one of the two modules
\* is importable; the second import is tried only when the first raised an
\* ImportError; an ImportError reaches the user only when both imports fail.
C13_ImportFallback ==
    /\ ImportSettled =>
          ((Importable("utils.utils") \/ Importable("examples.utils.utils"))
              => three_band_image # "unbound")
    /\ SecondTried => FirstRaisesImportError
    /\ (ImportSettled /\ IsImportError(raised)) =>
          (~Importable("utils.utils") /\ ~Importable("examples.utils.utils"))

\* C13 as amended: three_band_image is bound exactly when utils.utils is
\* importable, or the first import raises an ImportError and
\* examples.utils.utils is importable; another exception of the first import
\* reaches the user and the second import is not tried; the second import is
\* tried only when the first raised an ImportError; an ImportError reaches
\* the user only when both imports fail.
C13_ImportFallbackOnImportError ==
    /\ ImportSettled =>
          /\ three_band_image = "utils.utils" <=> Importable("utils.utils")
          /\ three_band_image = "examples.utils.utils"
                <=> (FirstRaisesImportError /\ Importable("examples.utils.utils"))
          /\ importable["utils.utils"] = "raises" =>
                (raised = "Exception" /\ three_band_image = "unbound" /\ diy_pc = "error")
    /\ SecondTried => FirstRaisesImportError
    /\ (ImportSettled /\ IsImportError(raised)) =>
          (~Importable("utils.utils") /\ ~Importable("examples.utils.utils"))

\* The cell has stopped on an exception of the first import that is not an
\* ImportError, in an environment where examples.utils.utils is importable.
C13_Witness ==
    /\ diy_pc = "error"
    /\ Importable("matplotlib.pyplot")
    /\ importable["utils.utils"] = "raises"
    /\ Importable("examples.utils.utils")
    /\ three_band_image = "unbound"
    /\ raised = "Exception"

\* The loaded part of a dataset: timestamps and, per timestep, the bands on
\* the pixel grid.
Loaded(ds) == <<ds.time, ds.red, ds.green, ds.blue, ds.swir1>>

\* C14: the cells that add MNDWI and tide_height to landsat_ds leave its
\* bands, timestamps and pixel grid as loaded, and the tide filter leaves
\* landsat_ds as it is: its result goes to landsat_hightide.
C14_DerivationFrame ==
    [][/\ pc \in {"mndwi", "interp"} => Loaded(landsat_ds') = Loaded(landsat_ds)
       /\ pc = "mndwi" => DOMAIN landsat_ds'.MNDWI = DOMAIN landsat_ds.time
       /\ pc = "interp" => /\ landsat_ds'.MNDWI = landsat_ds.MNDWI
                           /\ DOMAIN landsat_ds'.tide_height = DOMAIN landsat_ds.time
       /\ pc = "filter" => landsat_ds' = landsat_ds]_vars

\* The tide filter has run and removed a timestep; landsat_ds has both
\* derived variables and all its timesteps.
C14_Witness ==
    /\ pc = "resample"
    /\ Len(landsat_hightide.time) < Len(landsat_ds.time)
    /\ Len(landsat_ds.MNDWI) = Len(landsat_ds.time)
    /\ Len(landsat_ds.tide_height) = Len(landsat_ds.time)
    /\ Len(landsat_ds.time) = MaxImages

\* The position in landsat_ds of the k-th timestep of landsat_hightide.
Origin(k) == CHOOSE i \in Steps : landsat_ds.time[i] = landsat_hightide.time[k]

\* The variables of timestep i of dataset ds.
Timestep(ds, i) ==
    <<ds.time[i], ds.red[i], ds.green[i], ds.blue[i], ds.swir1[i], ds.MNDWI[i],
      ds.tide_height[i]>>

\* C15: the timesteps of the filtered dataset are timesteps of landsat_ds
\* in their original order, each with all its values unchanged, and the
\* same filter applied to the filtered dataset returns the same dataset.
C15_FilterIdempotentOrdered ==
    TidesFiltered =>
        LET kept == 1..Len(landsat_hightide.time)
        IN  /\ \A k \in kept : landsat_hightide.time[k] \in Range(landsat_ds.time)
            /\ \A k, l \in kept : k < l => Origin(k) < Origin(l)
            /\ \A k \in kept :
                  Timestep(landsat_hightide, k) = Timestep(landsat_ds, Origin(k))
            /\ WhereTide(landsat_hightide, tide_range) = landsat_hightide

\* The filter kept two timesteps that were not neighbours in landsat_ds.
C15_Witness ==
    /\ TidesFiltered
    /\ Len(landsat_hightide.time) = 2
    /\ Origin(2) > Origin(1) + 1

\* Timestamp t is before the first or after the last record of the tide file.
OutsideSpan(t) ==
    DateLt(t, tide_data[1].time) \/ DateLt(tide_data[Len(tide_data)].time, t)

\* Bounds a user may give for tide_range.
RangeEnds == {F(-1), F(0), F(2), <<7, 2>>, F(4), <<-1, 0>>, <<1, 0>>, NaN}

\* C16: an image timestep outside the span of the tide file has an
\* undefined tide height, fails the tide test for every tide_range, is not
\* in the filtered dataset and is in no composite.
C16_OutsideSpanRemoved ==
    TidesInterpolated =>
        \A i \in Steps : OutsideSpan(landsat_ds.time[i]) =>
            /\ IsNaN(landsat_ds.tide_height[i])
            /\ \A lo \in RangeEnds : \A hi \in RangeEnds :
                  ~TideCond(landsat_ds.tide_height[i], <<lo, hi>>)
            /\ TidesFiltered => landsat_ds.time[i] \notin Range(landsat_hightide.time)
            /\ Composited => \A k \in Composites :
                  landsat_ds.time[i] \notin Range(composite_times[k])

\* Composites exist of a series with a timestep before the first tide
\* record and a timestep after the last one.
C16_Witness ==
    /\ Composited
    /\ \E i \in Steps : DateLt(landsat_ds.time[i], tide_data[1].time)
    /\ \E i \in Steps : DateLt(tide_data[Len(tide_data)].time, landsat_ds.time[i])

====
